---- MODULE Spec2Model ----
(***************************************************************************)
(* Progress synchronisation of the four dashboard components               *)
(* (RetentionAnalytics, LearningPathway, SentimentDashboard,               *)
(* SchedulingDashboard).  One component is mounted; it issues one remote   *)
(* call per run, plays a timer-driven stage animation beside it and hands  *)
(* the payload to its result slot.                                         *)
(*                                                                         *)
(* A step of the model is one browser task: a click handler, a timer       *)
(* callback or a promise continuation, followed by the React render and    *)
(* the effects it triggers, run until no dependency changes any more.      *)
(***************************************************************************)
EXTENDS Integers, Sequences, FiniteSets, TLC

\* ---------------------------------------------------------------- bounds
MaxRuns == 2
MaxElapsed == 2

\* ------------------------------------------------------ program constants
RetentionStages == 5
LearningStages == 3
SentimentStages == 4
SchedulingStages == 5
RetentionFacts == 8
LearningFacts == 5
SentimentFacts == 5
OptimizationFacts == 8

Kinds == {"retention", "learning", "sentiment", "scheduling"}
Employees == {"emp_a", "emp_b"}
Cells == {"cell_a", "cell_b"}

NStages(k) ==
  CASE k = "retention" -> RetentionStages
    [] k = "learning" -> LearningStages
    [] k = "sentiment" -> SentimentStages
    [] OTHER -> SchedulingStages

NFacts(k) ==
  CASE k = "retention" -> RetentionFacts
    [] k = "learning" -> LearningFacts
    [] k = "sentiment" -> SentimentFacts
    [] OTHER -> OptimizationFacts

\* the argument of the remote call of a run
Keys(k) ==
  CASE k = "retention" -> {"all"}
    [] k = "learning" -> Employees
    [] k = "sentiment" -> Cells
    [] OTHER -> {"week"}

Null == [run |-> 0, key |-> "null"]
NoTimer == [chain |-> 0, kind |-> "none", idx |-> 0]
NoInterval == 0

initialAgentProgress(k) == [i \in 1..NStages(k) |-> "waiting"]

VARIABLES
  kind,                  \* which dashboard component is rendered
  mounted,               \* the component instance is still mounted
  inProgress,            \* isAnalyzing / isCreating / loadingInsight / isOptimizing
  showAgentProgress,     \* showingAgentProgress / showAgentProgress
  pendingResult,
  animationComplete,
  isFinalizing,
  retentionAnalysis,
  learningPaths,
  cellInsight,
  optimizationResult,
  selectedCell,
  showCreateModal,
  agentProgress,
  elapsedTime,
  currentFactIndex,
  timerRef,
  factTimerRef,
  agentTimerRef,
  isAnimationRunningRef,
  clockIntervals,        \* live setInterval handles of the clock
  factIntervals,         \* live setInterval handles of the fact rotation
  timeouts,              \* pending setTimeout callbacks
  remote,                \* state of the promise of each run's remote call
  request,               \* argument each run's remote call was issued with
  runs,                  \* number of runs started
  commitLog              \* hand-overs to the result slot made by the commit
                         \* effect, in order, each with the value isFinalizing
                         \* had when it was made

vars == <<kind, mounted, inProgress, showAgentProgress, pendingResult,
          animationComplete, isFinalizing, retentionAnalysis, learningPaths,
          cellInsight, optimizationResult, selectedCell, showCreateModal,
          agentProgress, elapsedTime, currentFactIndex, timerRef,
          factTimerRef, agentTimerRef, isAnimationRunningRef, clockIntervals,
          factIntervals, timeouts, remote, request, runs, commitLog>>

\* the component state as one value, so that handlers and effects compose
S ==
  [kind |-> kind, mounted |-> mounted, inProgress |-> inProgress,
   showAgentProgress |-> showAgentProgress, pendingResult |-> pendingResult,
   animationComplete |-> animationComplete, isFinalizing |-> isFinalizing,
   retentionAnalysis |-> retentionAnalysis, learningPaths |-> learningPaths,
   cellInsight |-> cellInsight, optimizationResult |-> optimizationResult,
   selectedCell |-> selectedCell, showCreateModal |-> showCreateModal,
   agentProgress |-> agentProgress, elapsedTime |-> elapsedTime,
   currentFactIndex |-> currentFactIndex, timerRef |-> timerRef,
   factTimerRef |-> factTimerRef, agentTimerRef |-> agentTimerRef,
   isAnimationRunningRef |-> isAnimationRunningRef,
   clockIntervals |-> clockIntervals, factIntervals |-> factIntervals,
   timeouts |-> timeouts, remote |-> remote, request |-> request,
   runs |-> runs, commitLog |-> commitLog]

Becomes(t) ==
  /\ kind' = t.kind
  /\ mounted' = t.mounted
  /\ inProgress' = t.inProgress
  /\ showAgentProgress' = t.showAgentProgress
  /\ pendingResult' = t.pendingResult
  /\ animationComplete' = t.animationComplete
  /\ isFinalizing' = t.isFinalizing
  /\ retentionAnalysis' = t.retentionAnalysis
  /\ learningPaths' = t.learningPaths
  /\ cellInsight' = t.cellInsight
  /\ optimizationResult' = t.optimizationResult
  /\ selectedCell' = t.selectedCell
  /\ showCreateModal' = t.showCreateModal
  /\ agentProgress' = t.agentProgress
  /\ elapsedTime' = t.elapsedTime
  /\ currentFactIndex' = t.currentFactIndex
  /\ timerRef' = t.timerRef
  /\ factTimerRef' = t.factTimerRef
  /\ agentTimerRef' = t.agentTimerRef
  /\ isAnimationRunningRef' = t.isAnimationRunningRef
  /\ clockIntervals' = t.clockIntervals
  /\ factIntervals' = t.factIntervals
  /\ timeouts' = t.timeouts
  /\ remote' = t.remote
  /\ request' = t.request
  /\ runs' = t.runs
  /\ commitLog' = t.commitLog

\* ------------------------------------------------------------- effects
\* An effect reads state through the closure of the render it belongs to
\* (r) and refs and timer tables through the live state (s).

\* the dependency of the clock and sequencer effects
PanelFlag(s) ==
  IF s.kind = "scheduling" THEN s.inProgress ELSE s.showAgentProgress

\* cleanup returned by the clock effect; only the effect of a render with
\* the panel shown returns one
ClockCleanup(captured, s) ==
  IF captured
  THEN [s EXCEPT !.clockIntervals = @ \ {s.timerRef},
                 !.factIntervals = @ \ {s.factTimerRef}]
  ELSE s

\* clock effect that starts the intervals and leaves the counter as it is
ClockEffectNoReset(r, s) ==
  IF PanelFlag(r)
  THEN [s EXCEPT !.timerRef = s.runs,
                 !.clockIntervals = @ \cup {s.runs},
                 !.factTimerRef = s.runs,
                 !.factIntervals = @ \cup {s.runs}]
  ELSE [s EXCEPT !.clockIntervals = @ \ {s.timerRef},
                 !.factIntervals = @ \ {s.factTimerRef}]

ClockEffect(r, s) ==
  IF PanelFlag(r)
  THEN [s EXCEPT !.elapsedTime = 0,
                 !.timerRef = s.runs,
                 !.clockIntervals = @ \cup {s.runs},
                 !.factTimerRef = s.runs,
                 !.factIntervals = @ \cup {s.runs}]
  ELSE [s EXCEPT !.clockIntervals = @ \ {s.timerRef},
                 !.factIntervals = @ \ {s.factTimerRef}]

\* cleanup that releases the guard and leaves the pending timeout alone
SequencerCleanupNoClear(captured, s) ==
  IF s.kind # "scheduling" /\ s.agentTimerRef # NoTimer /\ ~captured
  THEN [s EXCEPT !.isAnimationRunningRef = FALSE]
  ELSE s

\* cleanup that clears the pending timeout and leaves the guard set
SequencerCleanupKeepsGuard(captured, s) ==
  IF s.kind # "scheduling" /\ s.agentTimerRef # NoTimer /\ ~captured
  THEN [s EXCEPT !.timeouts = @ \ {s.agentTimerRef}]
  ELSE s

\* cleanup returned by the sequencer effect; `captured' is the value of the
\* panel flag in the render that created the cleanup
SequencerCleanup(captured, s) ==
  IF s.kind # "scheduling" /\ s.agentTimerRef # NoTimer /\ ~captured
  THEN [s EXCEPT !.timeouts = @ \ {s.agentTimerRef},
                 !.isAnimationRunningRef = FALSE]
  ELSE s

\* sequencer effect whose currentAgentIndex starts at 1
SequencerEffectStartsAtOne(r, s) ==
  IF s.kind # "scheduling" /\ r.showAgentProgress /\ ~s.isAnimationRunningRef
  THEN LET first == [chain |-> s.runs, kind |-> "sequence", idx |-> 1]
       IN [s EXCEPT !.isAnimationRunningRef = TRUE,
                    !.animationComplete = FALSE,
                    !.agentProgress = initialAgentProgress(s.kind),
                    !.agentTimerRef = first,
                    !.timeouts = @ \cup {first}]
  ELSE s

\* sequencer effect that starts the sequence on the stage list as it is
SequencerEffectKeepsStages(r, s) ==
  IF s.kind # "scheduling" /\ r.showAgentProgress /\ ~s.isAnimationRunningRef
  THEN LET first == [chain |-> s.runs, kind |-> "sequence", idx |-> 0]
       IN [s EXCEPT !.isAnimationRunningRef = TRUE,
                    !.animationComplete = FALSE,
                    !.agentTimerRef = first,
                    !.timeouts = @ \cup {first}]
  ELSE s

SequencerEffect(r, s) ==
  IF s.kind # "scheduling" /\ r.showAgentProgress /\ ~s.isAnimationRunningRef
  THEN LET first == [chain |-> s.runs, kind |-> "sequence", idx |-> 0]
       IN [s EXCEPT !.isAnimationRunningRef = TRUE,
                    !.animationComplete = FALSE,
                    !.agentProgress = initialAgentProgress(s.kind),
                    !.agentTimerRef = first,
                    !.timeouts = @ \cup {first}]
  ELSE s

\* hand-over that builds the learning-path map anew from the payload
AssignResultReplacesAll(r, s) ==
  CASE s.kind = "retention" ->
         [s EXCEPT !.retentionAnalysis = r.pendingResult]
    [] s.kind = "learning" ->
         [s EXCEPT !.learningPaths =
             [e \in Employees |->
                IF e = r.pendingResult.key THEN r.pendingResult ELSE Null]]
    [] OTHER ->
         [s EXCEPT !.cellInsight = r.pendingResult]

\* the hand-over of the payload to the result slot of the component
AssignResult(r, s) ==
  CASE s.kind = "retention" ->
         [s EXCEPT !.retentionAnalysis = r.pendingResult]
    [] s.kind = "learning" ->
         [s EXCEPT !.learningPaths[r.pendingResult.key] = r.pendingResult]
    [] OTHER ->
         [s EXCEPT !.cellInsight = r.pendingResult]

\* CommitEffect without the animationComplete conjunct
CommitEffectUngated(r, s) ==
  IF s.kind = "scheduling" THEN s
  ELSE IF r.pendingResult # Null
  THEN LET a == AssignResult(r, s)
       IN [a EXCEPT !.commitLog =
                        Append(@, [payload |-> r.pendingResult,
                                   finalizing |-> s.isFinalizing]),
                    !.pendingResult = Null,
                    !.animationComplete = FALSE,
                    !.isFinalizing = FALSE,
                    !.showAgentProgress = FALSE,
                    !.showCreateModal =
                        IF s.kind = "learning" THEN FALSE ELSE @,
                    !.inProgress = FALSE]
  ELSE IF s.kind = "retention" /\ r.animationComplete /\ r.pendingResult = Null
  THEN [s EXCEPT !.isFinalizing = TRUE]
  ELSE s

\* CommitEffect without setPendingResult(null) and setAnimationComplete(false)
CommitEffectKeepsFlags(r, s) ==
  IF s.kind = "scheduling" THEN s
  ELSE IF r.animationComplete /\ r.pendingResult # Null
  THEN LET a == AssignResult(r, s)
       IN [a EXCEPT !.commitLog =
                        Append(@, [payload |-> r.pendingResult,
                                   finalizing |-> s.isFinalizing]),
                    !.isFinalizing = FALSE,
                    !.showAgentProgress = FALSE,
                    !.showCreateModal =
                        IF s.kind = "learning" THEN FALSE ELSE @,
                    !.inProgress = FALSE]
  ELSE IF s.kind = "retention" /\ r.animationComplete /\ r.pendingResult = Null
  THEN [s EXCEPT !.isFinalizing = TRUE]
  ELSE s

\* CommitEffect without the pendingResult conjunct
CommitEffectIgnoresResult(r, s) ==
  IF s.kind = "scheduling" THEN s
  ELSE IF r.animationComplete
  THEN LET a == IF r.pendingResult # Null THEN AssignResult(r, s) ELSE s
       IN [a EXCEPT !.commitLog =
                        Append(@, [payload |-> r.pendingResult,
                                   finalizing |-> s.isFinalizing]),
                    !.pendingResult = Null,
                    !.animationComplete = FALSE,
                    !.isFinalizing = FALSE,
                    !.showAgentProgress = FALSE,
                    !.showCreateModal =
                        IF s.kind = "learning" THEN FALSE ELSE @,
                    !.inProgress = FALSE]
  ELSE s

\* commit effect without the finalizing branch
CommitEffectNoFinalizing(r, s) ==
  IF s.kind = "scheduling" THEN s
  ELSE IF r.animationComplete /\ r.pendingResult # Null
  THEN LET a == AssignResult(r, s)
       IN [a EXCEPT !.commitLog =
                        Append(@, [payload |-> r.pendingResult,
                                   finalizing |-> s.isFinalizing]),
                    !.pendingResult = Null,
                    !.animationComplete = FALSE,
                    !.isFinalizing = FALSE,
                    !.showAgentProgress = FALSE,
                    !.showCreateModal =
                        IF s.kind = "learning" THEN FALSE ELSE @,
                    !.inProgress = FALSE]
  ELSE s

CommitEffect(r, s) ==
  IF s.kind = "scheduling" THEN s
  ELSE IF r.animationComplete /\ r.pendingResult # Null
  THEN LET a == AssignResult(r, s)
       IN [a EXCEPT !.commitLog =
                        Append(@, [payload |-> r.pendingResult,
                                   finalizing |-> s.isFinalizing]),
                    !.pendingResult = Null,
                    !.animationComplete = FALSE,
                    !.isFinalizing = FALSE,
                    !.showAgentProgress = FALSE,
                    !.showCreateModal =
                        IF s.kind = "learning" THEN FALSE ELSE @,
                    !.inProgress = FALSE]
  ELSE IF s.kind = "retention" /\ r.animationComplete /\ r.pendingResult = Null
  THEN [s EXCEPT !.isFinalizing = TRUE]
  ELSE s

\* F(x, s) with s evaluated once
On(F(_, _), x, s) == CHOOSE y \in {F(x, v) : v \in {s}} : TRUE

\* Pass with the commit effect depending on animationComplete alone
PassCommitOnAnimationOnly(r, n) ==
  LET panelChanged == PanelFlag(n) # PanelFlag(r)
      commitChanged == n.animationComplete # r.animationComplete
      c1 == IF panelChanged THEN On(ClockCleanup, PanelFlag(r), n) ELSE n
      c2 == IF panelChanged THEN On(SequencerCleanup, PanelFlag(r), c1) ELSE c1
      e1 == IF panelChanged THEN On(ClockEffect, n, c2) ELSE c2
      e2 == IF panelChanged THEN On(SequencerEffect, n, e1) ELSE e1
  IN IF commitChanged THEN On(CommitEffect, n, e2) ELSE e2

\* one render: r is the previous render, n the state being rendered; the
\* cleanups of the effects whose dependency changed run first, then the
\* effects in the order of their declaration
Pass(r, n) ==
  LET panelChanged == PanelFlag(n) # PanelFlag(r)
      commitChanged == \/ n.animationComplete # r.animationComplete
                       \/ n.pendingResult # r.pendingResult
      c1 == IF panelChanged THEN On(ClockCleanup, PanelFlag(r), n) ELSE n
      c2 == IF panelChanged THEN On(SequencerCleanup, PanelFlag(r), c1) ELSE c1
      e1 == IF panelChanged THEN On(ClockEffect, n, c2) ELSE c2
      e2 == IF panelChanged THEN On(SequencerEffect, n, e1) ELSE e1
  IN IF commitChanged THEN On(CommitEffect, n, e2) ELSE e2

\* renders until no effect dependency changes any more
RECURSIVE Flush(_, _)
Flush(r, n) ==
  IF /\ PanelFlag(n) = PanelFlag(r)
     /\ n.animationComplete = r.animationComplete
     /\ n.pendingResult = r.pendingResult
  THEN n
  ELSE CHOOSE y \in {Flush(a, b) : a \in {n}, b \in {Pass(r, n)}} : TRUE

\* a callback that runs after the component was unmounted: React drops its
\* state updates and runs no effect; what it did to refs, to the timer
\* tables and to the promise remains
Detached(s, h) ==
  [s EXCEPT !.timerRef = h.timerRef,
            !.factTimerRef = h.factTimerRef,
            !.agentTimerRef = h.agentTimerRef,
            !.isAnimationRunningRef = h.isAnimationRunningRef,
            !.clockIntervals = h.clockIntervals,
            !.factIntervals = h.factIntervals,
            !.timeouts = h.timeouts,
            !.remote = h.remote]

\* the state after a task that took s to h
Render(s, h) ==
  IF s.mounted THEN Flush(s, h) ELSE Detached(s, h)

\* ------------------------------------------------------------ handlers
Payload(s, run) == [run |-> run, key |-> s.request[run]]

\* run control of the sentiment heat map with the cells left clickable
\* under the modal overlay
CanStartRunUncovered ==
  CASE kind = "retention" -> ~inProgress
    [] kind = "learning" ->
         showCreateModal /\ ~showAgentProgress /\ ~inProgress
    [] kind = "sentiment" -> TRUE
    [] OTHER -> ~inProgress

\* run control that is never disabled or covered
CanStartRunAlways == TRUE

\* the control that starts a run accepts a click
CanStartRun ==
  CASE kind = "retention" -> ~inProgress
    [] kind = "learning" ->
         showCreateModal /\ ~showAgentProgress /\ ~inProgress
    [] kind = "sentiment" ->
         ~(selectedCell # "none" /\ (showAgentProgress \/ cellInsight # Null))
    [] OTHER -> ~inProgress

IssueCall(s, key) ==
  [s EXCEPT !.runs = @ + 1,
            !.remote[s.runs + 1] = "pending",
            !.request[s.runs + 1] = key]

runRetentionAnalysis(s) ==
  [IssueCall(s, "all") EXCEPT !.inProgress = TRUE,
                              !.showAgentProgress = TRUE,
                              !.pendingResult = Null,
                              !.animationComplete = FALSE,
                              !.isFinalizing = FALSE]

createLearningPath(s, employeeId) ==
  [IssueCall(s, employeeId) EXCEPT !.inProgress = TRUE,
                                   !.showAgentProgress = TRUE,
                                   !.pendingResult = Null,
                                   !.animationComplete = FALSE]

handleCellClick(s, cell) ==
  [IssueCall(s, cell) EXCEPT !.selectedCell = cell,
                             !.inProgress = TRUE,
                             !.cellInsight = Null,
                             !.pendingResult = Null,
                             !.animationComplete = FALSE,
                             !.showAgentProgress = TRUE]

runOptimization(s) ==
  [IssueCall(s, "week") EXCEPT !.inProgress = TRUE,
                               !.optimizationResult = Null,
                               !.agentProgress = initialAgentProgress(s.kind)]

StartRun ==
  /\ mounted
  /\ runs < MaxRuns
  /\ CanStartRun
  /\ \E key \in Keys(kind) :
       LET h == CASE kind = "retention" -> runRetentionAnalysis(S)
                  [] kind = "learning" -> createLearningPath(S, key)
                  [] kind = "sentiment" -> handleCellClick(S, key)
                  [] OTHER -> runOptimization(S)
       IN \E nxt \in {Flush(S, h)} : Becomes(nxt)

\* continuation of the remote call: resolved with success = true
onSuccess(s, run) ==
  IF s.kind = "scheduling"
  THEN [s EXCEPT !.remote[run] = "success",
                 !.optimizationResult = Payload(s, run),
                 !.inProgress = FALSE]
  ELSE [s EXCEPT !.remote[run] = "success",
                 !.pendingResult = Payload(s, run)]

\* continuation of the remote call: resolved with success = false
onNonSuccess(s, run) ==
  IF s.kind = "scheduling"
  THEN [s EXCEPT !.remote[run] = "nonsuccess", !.inProgress = FALSE]
  ELSE [s EXCEPT !.remote[run] = "nonsuccess"]

\* catch block without the reset of the in-progress flag
onRejectKeepsBusy(s, run) ==
  IF s.kind = "scheduling"
  THEN [s EXCEPT !.remote[run] = "rejected"]
  ELSE [s EXCEPT !.remote[run] = "rejected",
                 !.showAgentProgress = FALSE]

\* continuation of the remote call: rejected (catch, and finally)
onReject(s, run) ==
  IF s.kind = "scheduling"
  THEN [s EXCEPT !.remote[run] = "rejected", !.inProgress = FALSE]
  ELSE [s EXCEPT !.remote[run] = "rejected",
                 !.showAgentProgress = FALSE,
                 !.inProgress = FALSE]

ResolveSuccess ==
  \E run \in 1..MaxRuns :
    /\ run <= runs /\ remote[run] = "pending"
    /\ \E nxt \in {Render(S, onSuccess(S, run))} : Becomes(nxt)

ResolveNonSuccess ==
  \E run \in 1..MaxRuns :
    /\ run <= runs /\ remote[run] = "pending"
    /\ \E nxt \in {Render(S, onNonSuccess(S, run))} : Becomes(nxt)

Reject ==
  \E run \in 1..MaxRuns :
    /\ run <= runs /\ remote[run] = "pending"
    /\ \E nxt \in {Render(S, onReject(S, run))} : Becomes(nxt)

\* --------------------------------------------------- timer callbacks
SetStatus(s, f(_, _)) ==
  [s EXCEPT !.agentProgress =
      [i \in 1..Len(s.agentProgress) |-> f(i - 1, s.agentProgress[i])]]

\* runAgentSequence that marks the current stage only and puts every other
\* stage back to waiting
runAgentSequenceForgetsCompleted(s, t) ==
  IF t.idx < NStages(s.kind)
  THEN LET mark(idx, old) == IF idx = t.idx THEN "working" ELSE "waiting"
           dwell == [chain |-> t.chain, kind |-> "dwell", idx |-> t.idx]
           m == SetStatus(s, mark)
       IN [m EXCEPT !.agentTimerRef = dwell,
                    !.timeouts = @ \cup {dwell}]
  ELSE s

\* runAgentSequence with the two index comparisons exchanged
runAgentSequenceFlipped(s, t) ==
  IF t.idx < NStages(s.kind)
  THEN LET mark(idx, old) == IF idx > t.idx THEN "completed"
                             ELSE IF idx = t.idx THEN "working"
                             ELSE "waiting"
           dwell == [chain |-> t.chain, kind |-> "dwell", idx |-> t.idx]
           m == SetStatus(s, mark)
       IN [m EXCEPT !.agentTimerRef = dwell,
                    !.timeouts = @ \cup {dwell}]
  ELSE s

\* runAgentSequence with the closure variable currentAgentIndex = t.idx
runAgentSequence(s, t) ==
  IF t.idx < NStages(s.kind)
  THEN LET mark(idx, old) == IF idx < t.idx THEN "completed"
                             ELSE IF idx = t.idx THEN "working"
                             ELSE "waiting"
           dwell == [chain |-> t.chain, kind |-> "dwell", idx |-> t.idx]
           m == SetStatus(s, mark)
       IN [m EXCEPT !.agentTimerRef = dwell,
                    !.timeouts = @ \cup {dwell}]
  ELSE s

\* workingTime callback that schedules the next timeout without keeping
\* its handle in agentTimerRef
dwellElapsedLosesHandle(s, t) ==
  LET mark(idx, old) == IF idx <= t.idx THEN "completed" ELSE old
      m == SetStatus(s, mark)
      next == IF t.idx + 1 < NStages(s.kind)
              THEN [chain |-> t.chain, kind |-> "sequence", idx |-> t.idx + 1]
              ELSE [chain |-> t.chain, kind |-> "settle", idx |-> t.idx + 1]
  IN [m EXCEPT !.timeouts = @ \cup {next}]

\* workingTime callback that signals completion itself after the last stage
dwellElapsedSignalsAtOnce(s, t) ==
  LET mark(idx, old) == IF idx <= t.idx THEN "completed" ELSE old
      m == SetStatus(s, mark)
      next == [chain |-> t.chain, kind |-> "sequence", idx |-> t.idx + 1]
  IN IF t.idx + 1 < NStages(s.kind)
     THEN [m EXCEPT !.agentTimerRef = next,
                    !.timeouts = @ \cup {next}]
     ELSE [m EXCEPT !.isAnimationRunningRef = FALSE,
                    !.animationComplete = TRUE]

\* workingTime callback that also marks the next stage working
dwellElapsedMarksNext(s, t) ==
  LET mark(idx, old) == IF idx <= t.idx THEN "completed"
                        ELSE IF idx = t.idx + 1 THEN "working"
                        ELSE old
      m == SetStatus(s, mark)
      next == IF t.idx + 1 < NStages(s.kind)
              THEN [chain |-> t.chain, kind |-> "sequence", idx |-> t.idx + 1]
              ELSE [chain |-> t.chain, kind |-> "settle", idx |-> t.idx + 1]
  IN [m EXCEPT !.agentTimerRef = next,
               !.timeouts = @ \cup {next}]

\* workingTime callback that schedules the settle delay one stage early
dwellElapsedSettlesEarly(s, t) ==
  LET mark(idx, old) == IF idx <= t.idx THEN "completed" ELSE old
      m == SetStatus(s, mark)
      next == IF t.idx + 2 < NStages(s.kind)
              THEN [chain |-> t.chain, kind |-> "sequence", idx |-> t.idx + 1]
              ELSE [chain |-> t.chain, kind |-> "settle", idx |-> t.idx + 1]
  IN [m EXCEPT !.agentTimerRef = next,
               !.timeouts = @ \cup {next}]

\* the callback scheduled for workingTime
dwellElapsed(s, t) ==
  LET mark(idx, old) == IF idx <= t.idx THEN "completed" ELSE old
      m == SetStatus(s, mark)
      next == IF t.idx + 1 < NStages(s.kind)
              THEN [chain |-> t.chain, kind |-> "sequence", idx |-> t.idx + 1]
              ELSE [chain |-> t.chain, kind |-> "settle", idx |-> t.idx + 1]
  IN [m EXCEPT !.agentTimerRef = next,
               !.timeouts = @ \cup {next}]

\* settle callback that releases the guard only
settleElapsedSilent(s, t) ==
  [s EXCEPT !.isAnimationRunningRef = FALSE]

\* the callback scheduled after the last stage
settleElapsed(s, t) ==
  [s EXCEPT !.isAnimationRunningRef = FALSE,
            !.animationComplete = TRUE]

AgentTimerFires ==
  \E t \in timeouts :
    LET s0 == [S EXCEPT !.timeouts = @ \ {t}]
        h == CASE t.kind = "sequence" -> runAgentSequence(s0, t)
               [] t.kind = "dwell" -> dwellElapsed(s0, t)
               [] OTHER -> settleElapsed(s0, t)
    IN \E nxt \in {Render(S, h)} : Becomes(nxt)

ClockTick ==
  /\ clockIntervals # {}
  /\ elapsedTime < MaxElapsed
  /\ \E nxt \in {Render(S, [S EXCEPT !.elapsedTime = @ + 1])} : Becomes(nxt)

FactTick ==
  /\ factIntervals # {}
  /\ \E nxt \in {Render(S, [S EXCEPT !.currentFactIndex =
                                         (@ + 1) % NFacts(kind)])} :
       Becomes(nxt)

\* ----------------------------------------------- other user interface
\* agent_update message on the optimisation WebSocket
handleAgentUpdate(s, agent, status) ==
  [s EXCEPT !.agentProgress[agent] =
      IF status = "completed" THEN "completed" ELSE "working"]

AgentUpdate ==
  /\ mounted
  /\ kind = "scheduling"
  /\ inProgress
  /\ \E agent \in 1..SchedulingStages, status \in {"working", "completed"} :
       \E nxt \in {handleAgentUpdate(S, agent, status)} : Becomes(nxt)

OpenCreateModal ==
  /\ mounted
  /\ kind = "learning"
  /\ ~showCreateModal
  /\ \E nxt \in {[S EXCEPT !.showCreateModal = TRUE]} : Becomes(nxt)

\* the modal of the component is rendered
ModalShown(s) ==
  CASE s.kind = "learning" -> s.showCreateModal
    [] s.kind = "sentiment" ->
         s.selectedCell # "none"
           /\ (s.showAgentProgress \/ s.cellInsight # Null)
    [] OTHER -> FALSE

\* backdrop onClick without the test of the progress panel flag
onBackdropClickUnguarded(s) ==
  IF s.kind = "learning"
  THEN [s EXCEPT !.showCreateModal = FALSE]
  ELSE [s EXCEPT !.selectedCell = "none", !.cellInsight = Null]

\* onClick of the modal backdrop
onBackdropClick(s) ==
  IF s.showAgentProgress THEN s
  ELSE IF s.kind = "learning"
  THEN [s EXCEPT !.showCreateModal = FALSE]
  ELSE [s EXCEPT !.selectedCell = "none", !.cellInsight = Null]

\* click on the backdrop of the Create Learning Path modal; the Cancel
\* button, rendered with the form only, closes the modal the same way
CloseCreateModal ==
  /\ mounted
  /\ kind = "learning"
  /\ ModalShown(S)
  /\ \E nxt \in {Render(S, onBackdropClick(S))} : Becomes(nxt)

\* click on the backdrop of the AI Analysis modal; the close button,
\* rendered with the insight only, closes the modal the same way
CloseInsight ==
  /\ mounted
  /\ kind = "sentiment"
  /\ ModalShown(S)
  /\ \E nxt \in {Render(S, onBackdropClick(S))} : Becomes(nxt)

\* the component is unmounted (the tab is switched): React runs the cleanup
\* of every effect, each with the closure of the render that created it
Unmount ==
  /\ mounted
  /\ LET c1 == On(ClockCleanup, PanelFlag(S), S)
         c2 == On(SequencerCleanup, PanelFlag(S), c1)
     IN \E nxt \in {[c2 EXCEPT !.mounted = FALSE]} : Becomes(nxt)

\* ------------------------------------------------------ specification
Init ==
  /\ kind \in Kinds
  /\ mounted = TRUE
  /\ inProgress = FALSE
  /\ showAgentProgress = FALSE
  /\ pendingResult = Null
  /\ animationComplete = FALSE
  /\ isFinalizing = FALSE
  /\ retentionAnalysis = Null
  /\ learningPaths = [e \in Employees |-> Null]
  /\ cellInsight = Null
  /\ optimizationResult = Null
  /\ selectedCell = "none"
  /\ showCreateModal = FALSE
  /\ agentProgress = initialAgentProgress(kind)
  /\ elapsedTime = 0
  /\ currentFactIndex = 0
  /\ timerRef = NoInterval
  /\ factTimerRef = NoInterval
  /\ agentTimerRef = NoTimer
  /\ isAnimationRunningRef = FALSE
  /\ clockIntervals = {}
  /\ factIntervals = {}
  /\ timeouts = {}
  /\ remote = [run \in 1..MaxRuns |-> "none"]
  /\ request = [run \in 1..MaxRuns |-> "null"]
  /\ runs = 0
  /\ commitLog = <<>>

Next ==
  \/ StartRun
  \/ ResolveSuccess
  \/ ResolveNonSuccess
  \/ Reject
  \/ AgentTimerFires
  \/ ClockTick
  \/ FactTick
  \/ AgentUpdate
  \/ OpenCreateModal
  \/ CloseCreateModal
  \/ CloseInsight

Spec == Init /\ [][Next]_vars

\* the three components that play the simulated stage sequence, with every
\* scheduled stage timer eventually firing
SequencedInit == Init /\ kind # "scheduling"

SequencedNext ==
  \/ StartRun
  \/ ResolveSuccess
  \/ ResolveNonSuccess
  \/ Reject
  \/ AgentTimerFires
  \/ ClockTick
  \/ FactTick
  \/ OpenCreateModal
  \/ CloseCreateModal
  \/ CloseInsight

LiveSpec == SequencedInit /\ [][SequencedNext]_vars /\ WF_vars(AgentTimerFires)

\* the components with the tab switch that unmounts them
TeardownNext ==
  \/ Next
  \/ Unmount

TeardownSpec == Init /\ [][TeardownNext]_vars

\* ------------------------------------------------------------ properties
Gated == kind # "scheduling"

\* the payload the remote call of a run resolves with
PayloadOf(run) == [run |-> run, key |-> request[run]]

ResultSlotHolds(p) ==
  CASE kind = "retention" -> retentionAnalysis = p
    [] kind = "learning" -> \E e \in Employees : learningPaths[e] = p
    [] kind = "sentiment" -> cellInsight = p
    [] OTHER -> optimizationResult = p

ResultSlots == <<retentionAnalysis, learningPaths, cellInsight,
                 optimizationResult>>

AllCompleted == \A i \in 1..Len(agentProgress) : agentProgress[i] = "completed"

Started(run) == run \in 1..MaxRuns /\ run <= runs

\* the result slot receives the payload of the run in this step
SlotReceives(run) ==
  /\ Started(run)
  /\ remote[run] \in {"pending", "success"}
  /\ ~ResultSlotHolds(PayloadOf(run))
  /\ ResultSlotHolds(PayloadOf(run))'

\* the stage sequence of the current run signals completion in this step
SettleFires ==
  /\ runs' = runs
  /\ \E t \in timeouts : t.kind = "settle" /\ t.chain = runs /\ t \notin timeouts'

\* the remote call of the run resolves with success = true in this step
SuccessArrives(run) ==
  Started(run) /\ remote[run] = "pending" /\ remote'[run] = "success"

CommittedRuns == {commitLog[i].payload.run : i \in 1..Len(commitLog)}

\* C1: in the retention, learning-path and sentiment components the result
\* slot receives the payload of a run only in a step in which the payload
\* is in pendingResult (or arrives) and the stage sequence has signalled
\* completion (or signals it), and the payload of the current run is never
\* in the result slot while a stage is waiting or working.
C1_CommitGate ==
  /\ [](Gated =>
         \A run \in 1..MaxRuns :
           (run = runs /\ ResultSlotHolds(PayloadOf(run))) => AllCompleted)
  /\ [][Gated =>
         \A run \in 1..MaxRuns :
           SlotReceives(run) =>
             /\ pendingResult = PayloadOf(run) \/ SuccessArrives(run)
             /\ animationComplete \/ SettleFires
             /\ AllCompleted]_vars

C1_Witness ==
  /\ Gated /\ runs >= 1
  /\ ResultSlotHolds(PayloadOf(runs))
  /\ AllCompleted
  /\ ~showAgentProgress

\* C2: the payload of a run is handed to the result slot at most once, and
\* running the commit check again in any reachable state changes nothing,
\* the commit having cleared pendingResult and animationComplete.
C2_CommitOnce ==
  /\ \A i, j \in 1..Len(commitLog) :
       commitLog[i].payload.run = commitLog[j].payload.run => i = j
  /\ CommitEffect(S, S) = S
  /\ (commitLog # <<>> /\ runs \in CommittedRuns) =>
       (pendingResult = Null /\ ~animationComplete)

C2_Witness ==
  /\ Gated
  /\ Len(commitLog) = 2
  /\ pendingResult = Null
  /\ ~animationComplete

\* C3: a run commits exactly in the step in which the second of its two
\* prerequisites becomes true: the stage sequence signals completion with
\* the payload already in pendingResult, or the remote call resolves
\* successfully with animationComplete already raised; no other step
\* commits, and no run commits twice.
C3_BothInterleavings ==
  [][Gated =>
      LET second ==
            \/ runs >= 1 /\ pendingResult = PayloadOf(runs) /\ SettleFires
            \/ animationComplete /\ SuccessArrives(runs)
      IN /\ second =>
              /\ commitLog' = Append(commitLog,
                                     [payload |-> PayloadOf(runs),
                                      finalizing |-> isFinalizing])
              /\ ResultSlotHolds(PayloadOf(runs))'
              /\ runs \notin CommittedRuns
         /\ ~second => /\ commitLog' = commitLog
                       /\ \A run \in 1..MaxRuns : ~SlotReceives(run)]_vars

\* both orders have happened: one run committed out of the finalizing
\* state (sequence first), another one directly (remote call first)
C3_Witness ==
  /\ kind = "retention"
  /\ \E i, j \in 1..Len(commitLog) :
       commitLog[i].finalizing /\ ~commitLog[j].finalizing

\* C4: a run whose remote call rejected never commits: from the rejection
\* until the next run starts no step writes the result slot, whatever the
\* stage sequence does, and no rejected run is ever among the committed.
C4_RejectedNeverCommits ==
  /\ [](\A run \in 1..MaxRuns :
          (Started(run) /\ remote[run] = "rejected") =>
             /\ run \notin CommittedRuns
             /\ ~ResultSlotHolds(PayloadOf(run)))
  /\ [][(runs >= 1 /\ remote[runs] = "rejected" /\ runs' = runs) =>
          /\ ResultSlots' = ResultSlots
          /\ commitLog' = commitLog]_vars

\* the sequence of the rejected run went on and signalled completion
C4_Witness ==
  /\ Gated /\ runs >= 1
  /\ remote[runs] = "rejected"
  /\ animationComplete
  /\ AllCompleted

\* C5: if the remote call of a run resolves successfully and every timer
\* eventually fires, the payload reaches the result slot with the progress
\* panel flag and the in-progress flag cleared.
C5_CommitLiveness ==
  \A run \in 1..MaxRuns :
    (Gated /\ Started(run) /\ remote[run] = "success"
       /\ run \notin CommittedRuns)
      ~> (/\ ResultSlotHolds(PayloadOf(run))
          /\ run \in CommittedRuns
          /\ ~showAgentProgress
          /\ ~inProgress)

C5_Witness ==
  /\ Gated /\ runs >= 1
  /\ remote[runs] = "success"
  /\ runs \in CommittedRuns
  /\ ResultSlotHolds(PayloadOf(runs))
  /\ ~showAgentProgress /\ ~inProgress

\* C6: in all four components the result slot receives a payload only
\* through the commit step, with the stage sequence completed.
C6_NoDirectAssignment ==
  [][\A run \in 1..MaxRuns :
       SlotReceives(run) =>
         /\ Len(commitLog') = Len(commitLog) + 1
         /\ AllCompleted']_vars

\* C7: after a remote call resolved with success = false the component is
\* idle again: progress panel flag and in-progress flag are false.
C7_NonSuccessResets ==
  (runs >= 1 /\ remote[runs] = "nonsuccess") =>
    (~showAgentProgress /\ ~inProgress)

\* C8: the step in which the remote call rejects hides the progress panel
\* and clears the in-progress flag, whatever the stage sequence has reached,
\* and leaves the run control enabled.
C8_RejectResets ==
  [][\A run \in 1..MaxRuns :
       (Started(run) /\ remote[run] = "pending" /\ remote'[run] = "rejected")
         => (~showAgentProgress' /\ ~inProgress' /\ CanStartRun')]_vars

C8_Witness ==
  /\ runs >= 1
  /\ remote[runs] = "rejected"
  /\ ~showAgentProgress /\ ~inProgress
  /\ CanStartRun
  /\ \E i \in 1..Len(agentProgress) : agentProgress[i] = "working"

\* C9: from the rejection of a run's remote call until a new run starts no
\* stage changes status and animationComplete is not raised.
C9_RejectCancelsSequencer ==
  [][(Gated /\ runs >= 1 /\ remote[runs] = "rejected" /\ runs' = runs) =>
       /\ agentProgress' = agentProgress
       /\ ~animationComplete']_vars

RunLive ==
  \/ inProgress
  \/ showAgentProgress
  \/ \E run \in 1..MaxRuns : remote[run] = "pending"

Rank(status) ==
  CASE status = "waiting" -> 0
    [] status = "working" -> 1
    [] OTHER -> 2

\* C11: within one run of a component that plays the simulated stage
\* sequence no step moves a stage backwards: the status of every stage stays
\* or advances along waiting, working, completed.
C11_StageMonotone ==
  [][(Gated /\ runs' = runs) =>
       \A i \in 1..Len(agentProgress) :
         Rank(agentProgress'[i]) >= Rank(agentProgress[i])]_vars

\* a later stage is working behind completed ones
C11_Witness ==
  /\ Gated /\ runs >= 1
  /\ agentProgress[1] = "completed"
  /\ agentProgress[2] = "completed"
  /\ agentProgress[3] = "working"

\* C12: in every reachable state of a component that plays the simulated
\* stage sequence the stage list is a block of completed stages, then at
\* most one working stage, then a block of waiting stages.
C12_StageOrder ==
  Gated =>
    /\ \A i, j \in 1..Len(agentProgress) :
         i < j => Rank(agentProgress[i]) >= Rank(agentProgress[j])
    /\ Cardinality({i \in 1..Len(agentProgress) :
                      agentProgress[i] = "working"}) <= 1

\* between two stages: the first is completed and no stage is working yet
C12_Witness ==
  /\ Gated /\ showAgentProgress
  /\ agentProgress[1] = "completed"
  /\ agentProgress[2] = "waiting"
  /\ \E t \in timeouts : t.kind = "sequence" /\ t.idx = 1

\* C13: animationComplete is true only in states in which every stage is
\* completed.
C13_CompleteOnlyWhenAllCompleted ==
  animationComplete => AllCompleted

\* the finalizing state: the sequence has signalled, the call is pending
C13_Witness ==
  /\ animationComplete
  /\ AllCompleted
  /\ showAgentProgress
  /\ runs >= 1 /\ remote[runs] = "pending"

\* C14: every pending stage timeout belongs to the current run: the start
\* of a run clears the timeout a rejected run left pending, so no callback
\* of an earlier run fires during the new run.
C14_NoStaleStageTimer ==
  Gated => \A t \in timeouts : t.chain = runs

\* a run rejected before its sequence ended is followed by a run whose
\* sequence is under way
C14_Witness ==
  /\ Gated /\ runs = 2
  /\ remote[1] = "rejected"
  /\ showAgentProgress
  /\ \E t \in timeouts : t.chain = 2 /\ t.kind = "dwell"

\* the stage sequence of the run has fired its settle callback
SequenceSignalled(run) ==
  /\ agentTimerRef = [chain |-> run, kind |-> "settle", idx |-> NStages(kind)]
  /\ agentTimerRef \notin timeouts
  /\ ~isAnimationRunningRef

\* C15: the reentrancy guard never blocks a run: every run start takes the
\* guard and schedules the first stage timeout of a new sequence, and the
\* sequence of a run signals completion unless a later run replaces it.
C15_GuardReleased ==
  /\ [][(Gated /\ runs' = runs + 1) =>
          /\ isAnimationRunningRef'
          /\ timeouts' = {[chain |-> runs', kind |-> "sequence", idx |-> 0]}]_vars
  /\ \A run \in 1..MaxRuns :
       (Gated /\ runs = run) ~> (SequenceSignalled(run) \/ runs > run)

\* the second run, started after a rejected one, has signalled completion
C15_Witness ==
  /\ Gated /\ runs = 2
  /\ remote[1] = "rejected"
  /\ SequenceSignalled(2)

\* the stage list the pending timeout of the current sequence stands for
StagesAt(t) ==
  [i \in 1..NStages(kind) |->
     IF i - 1 < t.idx THEN "completed"
     ELSE IF i - 1 = t.idx /\ t.kind = "dwell" THEN "working"
     ELSE "waiting"]

\* C16: every run starts clean: the step that starts a run leaves every
\* stage waiting, and while the progress panel is shown the stage list is
\* exactly what the sequence of the current run has produced so far.
C16_RunStartsClean ==
  /\ [][runs' = runs + 1 =>
          agentProgress' = initialAgentProgress(kind)]_vars
  /\ []((Gated /\ showAgentProgress) =>
          /\ \A t \in timeouts : t.chain = runs /\ agentProgress = StagesAt(t)
          /\ timeouts = {} => AllCompleted)

\* a second run, after a committed one, with all stages waiting
C16_Witness ==
  /\ Gated /\ runs = 2
  /\ 1 \in CommittedRuns
  /\ showAgentProgress
  /\ agentProgress = initialAgentProgress(kind)
  /\ timeouts = {[chain |-> 2, kind |-> "sequence", idx |-> 0]}

\* C17: the elapsed-seconds counter is 0 after the step that starts a run,
\* changes within a run only by +1 and only while the progress panel flag
\* is set, and exactly one clock interval runs while the flag is set and
\* none while it is clear.
C17_ElapsedClock ==
  /\ [][runs' = runs + 1 => elapsedTime' = 0]_vars
  /\ [][(runs' = runs /\ elapsedTime' # elapsedTime) =>
          /\ elapsedTime' = elapsedTime + 1
          /\ PanelFlag(S)]_vars
  /\ [](clockIntervals = IF PanelFlag(S) THEN {runs} ELSE {})

\* a second run has ended and the counter rests at the value it reached
C17_Witness ==
  /\ runs = 2
  /\ ~PanelFlag(S)
  /\ elapsedTime = 1
  /\ clockIntervals = {}

\* C18: the fact index is 0 after the step that starts a run, the first
\* run and every later one; it changes only by a rotation tick, to
\* (index + 1) mod the number of facts, and only while a run is in progress.
C18_FactRotation ==
  /\ [][runs' = runs + 1 => currentFactIndex' = 0]_vars
  /\ [][currentFactIndex' # currentFactIndex =>
          /\ currentFactIndex' = (currentFactIndex + 1) % NFacts(kind)
          /\ PanelFlag(S)]_vars

\* C19: in the retention component the step in which the stage sequence
\* signals completion with the remote call pending sets isFinalizing with
\* the panel shown and the clock interval running; this lasts while the call
\* is pending; the step in which the call succeeds commits the payload and
\* clears isFinalizing.
C19_Finalizing ==
  /\ [][(kind = "retention" /\ runs >= 1 /\ remote[runs] = "pending"
           /\ SettleFires) =>
          /\ isFinalizing' /\ showAgentProgress'
          /\ clockIntervals' = {runs}
          /\ commitLog' = commitLog]_vars
  /\ [][(kind = "retention" /\ runs >= 1 /\ isFinalizing
           /\ remote[runs] = "pending" /\ remote'[runs] = "pending") =>
          /\ isFinalizing' /\ showAgentProgress'
          /\ clockIntervals' = {runs}]_vars
  /\ [][(kind = "retention" /\ isFinalizing /\ SuccessArrives(runs)) =>
          /\ ~isFinalizing'
          /\ ResultSlotHolds(PayloadOf(runs))'
          /\ commitLog' = Append(commitLog, [payload |-> PayloadOf(runs),
                                              finalizing |-> TRUE])]_vars

\* the clock has ticked in the finalizing state
C19_Witness ==
  /\ kind = "retention" /\ runs >= 1
  /\ isFinalizing /\ showAgentProgress
  /\ remote[runs] = "pending"
  /\ AllCompleted
  /\ elapsedTime >= 1

\* C21: once the component is unmounted no timer of the run is left: the
\* clock interval, the fact interval and the pending stage timeout are all
\* cleared, so no callback of the run executes afterwards.
C21_TeardownClearsTimers ==
  ~mounted =>
    /\ clockIntervals = {}
    /\ factIntervals = {}
    /\ timeouts = {}

\* the pending stage timeout t fires in this step
Fires(t) == t \in timeouts /\ t \notin timeouts' /\ runs' = runs

StartTimeout(run) == [chain |-> run, kind |-> "sequence", idx |-> 0]

\* C22 as stated: a started sequence (panel shown, guard set) has no state
\* in which every stage is still waiting.
C22_StageZeroAtOnce ==
  (Gated /\ showAgentProgress /\ isAnimationRunningRef) =>
    \E i \in 1..Len(agentProgress) : agentProgress[i] # "waiting"

\* C22 amended: the step that starts the sequence leaves every stage
\* waiting with the start timeout pending, and the step in which the start
\* timeout fires puts stage 0 into working with all later stages waiting.
C22_StageZeroAfterDelay ==
  /\ [][(Gated /\ runs' = runs + 1) =>
          /\ agentProgress' = initialAgentProgress(kind)
          /\ timeouts' = {StartTimeout(runs')}]_vars
  /\ [][(Gated /\ runs >= 1 /\ Fires(StartTimeout(runs))) =>
          /\ agentProgress'[1] = "working"
          /\ \A i \in 2..Len(agentProgress) : agentProgress'[i] = "waiting"
          /\ timeouts' = {[chain |-> runs, kind |-> "dwell", idx |-> 0]}]_vars

\* the start timeout has fired: stage 0 is working, the others wait
C22_Witness ==
  /\ Gated /\ showAgentProgress /\ isAnimationRunningRef
  /\ agentProgress[1] = "working"
  /\ \A i \in 2..Len(agentProgress) : agentProgress[i] = "waiting"
  /\ timeouts = {[chain |-> runs, kind |-> "dwell", idx |-> 0]}

\* C23 as stated: the step in which the dwell timeout of stage i fires
\* marks stage i and all earlier stages completed and, if stage i is not
\* the last, marks stage i+1 working.
C23_NoGapBetweenStages ==
  [][Gated =>
      \A t \in timeouts :
        (t.kind = "dwell" /\ Fires(t)) =>
          /\ \A i \in 1..(t.idx + 1) : agentProgress'[i] = "completed"
          /\ t.idx + 1 < NStages(kind) =>
               agentProgress'[t.idx + 2] = "working"]_vars

\* C23 amended: the step in which the dwell timeout of stage i fires marks
\* stage i and all earlier stages completed, leaves the later stages waiting
\* and schedules the next timeout; stage i+1 becomes working in the step in
\* which that timeout fires.
C23_DwellThenDelay ==
  [][Gated =>
      \A t \in timeouts :
        /\ (t.kind = "dwell" /\ Fires(t)) =>
             /\ \A i \in 1..Len(agentProgress) :
                  agentProgress'[i] =
                    IF i - 1 <= t.idx THEN "completed" ELSE "waiting"
             /\ timeouts' =
                  {[chain |-> t.chain,
                    kind |-> IF t.idx + 1 < NStages(kind)
                             THEN "sequence" ELSE "settle",
                    idx |-> t.idx + 1]}
        /\ (t.kind = "sequence" /\ Fires(t)) =>
             /\ agentProgress' =
                  StagesAt([chain |-> t.chain, kind |-> "dwell", idx |-> t.idx])
             /\ timeouts' =
                  {[chain |-> t.chain, kind |-> "dwell", idx |-> t.idx]}]_vars

\* between the second and the third stage: two completed, none working
C23_Witness ==
  /\ Gated /\ showAgentProgress
  /\ agentProgress[2] = "completed"
  /\ \A i \in 3..Len(agentProgress) : agentProgress[i] = "waiting"
  /\ timeouts = {[chain |-> runs, kind |-> "sequence", idx |-> 2]}

\* C24: the sequence-complete signal is raised only by the settle timeout,
\* in a step that finds every stage already completed and that releases the
\* guard and leaves no stage timeout pending; once the sequence of a run has
\* signalled, no step of that run raises the signal again.
C24_SignalOnce ==
  /\ [][Gated =>
          \A t \in timeouts :
            (t.kind = "settle" /\ Fires(t)) =>
              /\ AllCompleted
              /\ ~animationComplete
              /\ ~isAnimationRunningRef'
              /\ timeouts' = {}
              /\ animationComplete'
                   \/ Len(commitLog') = Len(commitLog) + 1]_vars
  /\ [][(Gated /\ animationComplete' /\ ~animationComplete) =>
          \E t \in timeouts : t.kind = "settle" /\ Fires(t)]_vars
  /\ [][(Gated /\ runs >= 1 /\ SequenceSignalled(runs) /\ runs' = runs) =>
          /\ timeouts' = {}
          /\ animationComplete' => animationComplete]_vars

\* the settle timeout has fired with the remote call pending
C24_Witness ==
  /\ Gated /\ runs >= 1
  /\ SequenceSignalled(runs)
  /\ animationComplete
  /\ timeouts = {}
  /\ remote[runs] = "pending"

\* C25: in the scheduling dashboard no step of a run moves the status of an
\* agent backwards: an agent shown completed is not returned to working or
\* waiting by an agent_update message.
C25_AgentNeverRegresses ==
  [][(kind = "scheduling" /\ runs' = runs) =>
       \A i \in 1..Len(agentProgress) :
         Rank(agentProgress'[i]) >= Rank(agentProgress[i])]_vars

\* C26: at most one stage timeout is pending at any time and agentTimerRef
\* holds it, so that clearing the timeout in agentTimerRef leaves none.
C26_OnePendingTimeout ==
  Gated =>
    /\ Cardinality(timeouts) <= 1
    /\ timeouts \subseteq {agentTimerRef}

\* the settle timeout is the pending one and agentTimerRef holds it
C26_Witness ==
  /\ Gated
  /\ timeouts = {agentTimerRef}
  /\ agentTimerRef.kind = "settle"

\* C27: the payload waiting in pendingResult and the payload handed to
\* the result slot are those of the remote call the current run issued; in
\* the sentiment dashboard the insight shown is the one of the selected cell.
C27_PayloadOfCurrentRun ==
  /\ []((Gated /\ pendingResult # Null) =>
          (runs >= 1 /\ pendingResult = PayloadOf(runs)))
  /\ []((kind = "sentiment" /\ cellInsight # Null) =>
          cellInsight.key = selectedCell)
  /\ [][Gated =>
          \A run \in 1..MaxRuns :
            SlotReceives(run) =>
              /\ run = runs
              /\ remote'[run] = "success"
              /\ commitLog'[Len(commitLog')].payload = PayloadOf(runs)]_vars

\* the second click, on another cell, has committed the insight of that cell
C27_Witness ==
  /\ kind = "sentiment" /\ runs = 2
  /\ request[1] # request[2]
  /\ cellInsight = PayloadOf(2)
  /\ selectedCell = request[2]

\* C28: in the retention component isFinalizing and animationComplete are
\* true only while the progress panel is shown.
C28_FlagsOnlyWhileShown ==
  kind = "retention" =>
    /\ isFinalizing => showAgentProgress
    /\ animationComplete => showAgentProgress

\* C29: a step that is not a commit leaves retentionAnalysis and every
\* entry of learningPaths as they are, so a run that does not commit changes
\* neither; a learning-path commit changes only the entry of the employee
\* the run was started for.
C29_ResultSlotFrame ==
  /\ [][(kind \in {"retention", "learning"} /\ commitLog' = commitLog) =>
          /\ retentionAnalysis' = retentionAnalysis
          /\ learningPaths' = learningPaths]_vars
  /\ [][(kind = "learning" /\ commitLog' # commitLog) =>
          \A e \in Employees :
            e # request[runs] => learningPaths'[e] = learningPaths[e]]_vars

\* the path of one employee is still there after a second run committed
\* the path of the other
C29_Witness ==
  /\ kind = "learning" /\ runs = 2
  /\ request[1] # request[2]
  /\ learningPaths[request[1]] = PayloadOf(1)
  /\ learningPaths[request[2]] = PayloadOf(2)

\* C30: while the progress panel flag is set a click on the modal backdrop
\* of the learning-path or sentiment dashboard changes nothing; the modal,
\* the selected cell and the insight stay as they are for as long as the
\* flag is set, and the flag is cleared only by a commit or by the rejection
\* of the remote call.
C30_BackdropInert ==
  /\ []((kind \in {"learning", "sentiment"} /\ showAgentProgress) =>
          (ModalShown(S) /\ onBackdropClick(S) = S))
  /\ [][(kind \in {"learning", "sentiment"}
           /\ showAgentProgress /\ showAgentProgress') =>
          /\ showCreateModal' = showCreateModal
          /\ selectedCell' = selectedCell
          /\ cellInsight' = cellInsight]_vars
  /\ [][(Gated /\ showAgentProgress /\ ~showAgentProgress') =>
          \/ Len(commitLog') = Len(commitLog) + 1
          \/ remote[runs] = "pending" /\ remote'[runs] = "rejected"]_vars

\* the modal of a run in progress, open with a stage working
C30_Witness ==
  /\ kind \in {"learning", "sentiment"}
  /\ showAgentProgress /\ ModalShown(S)
  /\ runs >= 1 /\ remote[runs] = "pending"
  /\ \E i \in 1..Len(agentProgress) : agentProgress[i] = "working"

====
